---- MODULE Spec2Model ----
(***************************************************************************)
(* Model of the MiniMind task orchestration engine (src/app).              *)
(*                                                                         *)
(* The store (Task, Subtask, AgentExecution tables) is one committed       *)
(* state shared by every session.  A run of ControllerAgent.execute is a   *)
(* coroutine of one asyncio event loop: it keeps the loop (variable cur)   *)
(* from one suspension point (a provider call, an asyncio.sleep) to the    *)
(* next, so the code between two suspension points is atomic with respect  *)
(* to other runs and to API requests.                                      *)
(*                                                                         *)
(* Fault model.  The generative provider may fail or return any plan.  A   *)
(* store call (commit) made by a handler may raise: it then writes nothing *)
(* (SQLAlchemy rolls the session back) and the store stays usable.  The    *)
(* faults of one handler phase are an oracle f, a sequence of booleans     *)
(* consumed one per store call.  Of the store calls the orchestrator makes  *)
(* itself, the final record of a run may fail (the only call of execute    *)
(* outside a step's own try); those of the loop and of the aggregation are *)
(* taken to succeed.  An insert that refers to a missing task is accepted  *)
(* or rejected by the store (foreign key enforced or not).                 *)
(***************************************************************************)
EXTENDS Integers, Sequences, FiniteSets, TLC

\* ---- bounds of the model ----
MaxTasks == 1       \* tasks created
MaxProcs == 2       \* invocations of ControllerAgent.execute
MaxPlan == 2        \* subtasks in a provider plan
MaxIdx == 1         \* largest order_index a provider plan carries
MaxSubtasks == 6    \* rows of the subtask table
MaxFaults == 1      \* handler phases of a behaviour that meet faults
MaxApiCalls == 1    \* direct planner calls through the agent endpoint
FaultLen == 4       \* provider and store calls one handler phase can make
MaxUsers == 2       \* users that own memory records
MaxInitMem == 1     \* memory records present besides the padding
MaxLoads == 2       \* context loads of a behaviour of the memory store
MaxSockets == 3     \* WebSocket connections ever accepted

TaskIds == 1..MaxTasks
\* a task id no Task row ever has
MissingTask == MaxTasks + 1
Procs == 1..MaxProcs

\* ---- vocabulary of the data model (src/app/models.py) ----
TaskStatuses == {"pending", "planning", "executing", "completed", "partial", "failed"}
Terminal == {"completed", "partial", "failed"}
SubtaskStatuses == {"pending", "executing", "completed", "failed"}
\* agent_type values a provider plan may carry (planner.py:15)
AgentTypes == {"planner", "research", "executor", "memory", "controller"}
\* the registry of ControllerAgent.__init__
Registry == {"planner", "research", "executor", "memory"}

VARIABLES
    apiKey,     \* settings.OPENAI_API_KEY is set
    provPlan,   \* the plan the provider returns for the task's prompt
    overlap,    \* behaviours explored: overlapping runs, or store faults
    tasks,      \* Task table: sequence of rows, id = position
    subtasks,   \* Subtask table: sequence of rows, id = position
    ledger,     \* AgentExecution table in insertion (started_at) order
    procs,      \* the invocations of ControllerAgent.execute
    cur,        \* the coroutine holding the event loop, 0 when none
    faults,     \* handler phases that met faults so far
    apiCalls,   \* direct agent calls made so far
    lastInv,    \* history: the last handler invocation that returned
    memories,   \* Memory table: sequence of rows, id = position
    clock,      \* datetime.now(), a counter
    lastLoad,   \* history: the last context load of the memory handler
    prevLoad,   \* history: the context load before it
    active_connections, \* ConnectionManager.active_connections
    closed,     \* the sockets whose peer is gone: a send to them raises
    bcast       \* the broadcast in progress and its history

\* the variables of the orchestration and those of the memory store
runvars == <<apiKey, provPlan, overlap, tasks, subtasks, ledger, procs, cur, faults, apiCalls, lastInv>>
memvars == <<memories, clock, lastLoad, prevLoad>>
\* the variables of the subscriber collection
bcvars == <<active_connections, closed, bcast>>
vars == <<runvars, memvars, bcvars>>

\* ---- sequences helpers ----
RECURSIVE CountTrue(_)
CountTrue(f) == IF f = <<>> THEN 0 ELSE (IF Head(f) THEN 1 ELSE 0) + CountTrue(Tail(f))

\* the fault oracles a handler phase may meet with budget b left
Oracles(b) == {f \in [1..FaultLen -> BOOLEAN] : b > 0 \/ CountTrue(f) = 0}

\* ids of the subtasks of task t, in table order
SubtaskIdsOf(S, t) == {i \in 1..Len(S) : S[i].task_id = t}

\* query(Subtask).filter(task_id).order_by(order_index).all(): rows by
\* order_index, ties by id
RECURSIVE SortIds(_, _)
SortIds(S, ids) ==
    IF ids = {} THEN <<>>
    ELSE LET m == CHOOSE i \in ids : \A j \in ids :
                      \/ S[i].order_index < S[j].order_index
                      \/ (S[i].order_index = S[j].order_index /\ i <= j)
         IN <<m>> \o SortIds(S, ids \ {m})

OrderedSubtasks(S, t) == SortIds(S, SubtaskIdsOf(S, t))

\* ---- the store calls of BaseAgent, on a computation context ----
\* A context k carries the tables, the fault oracle still to consume, the
\* pending exception flag, the handler's result, the provider calls made
\* and the payload of the returned outcome.
\* payload: the fallback_mode flag and the length of the list the degraded
\* path fills (actions_taken, findings, subtask_details); the lists of a
\* provider answer are not modelled
NoPayload == [fallback |-> FALSE, items |-> 0]

Ctx(f) == [tasks |-> tasks, subtasks |-> subtasks, ledger |-> ledger,
           f |-> f, exc |-> FALSE, res |-> "none", calls |-> 0,
           payload |-> NoPayload]

Fails(k) == Len(k.f) > 0 /\ Head(k.f)
Used(k) == [k EXCEPT !.f = IF Len(k.f) > 0 THEN Tail(k.f) ELSE <<>>]
Raise(k) == [Used(k) EXCEPT !.exc = TRUE]
Caught(k) == [k EXCEPT !.exc = FALSE]
Return(k, r) == [k EXCEPT !.res = r]
\* the success outcome of a degraded path: fallback_mode True and n entries
ReturnFallback(k, n) ==
    [k EXCEPT !.res = "success", !.payload = [fallback |-> TRUE, items |-> n]]

\* a variant that stamps completed records only
execution_completed_at_strict(status) == status = "completed"

\* completed_at of a new AgentExecution: datetime.now() (TRUE) for the
\* statuses completed and failed, None (FALSE) otherwise
execution_completed_at(status) == status \in {"completed", "failed"}

\* a variant that rewrites the agent's latest record of the task in place
log_execution_upsert(k, task_id, agent_type, status, subtask_id) ==
    IF Fails(k) THEN Raise(k)
    ELSE LET row == [task_id |-> task_id, subtask_id |-> subtask_id,
                     agent_type |-> agent_type, status |-> status,
                     completed_at |-> execution_completed_at(status)]
             n == Len(k.ledger)
         IN IF n > 0 /\ k.ledger[n].task_id = task_id /\ k.ledger[n].agent_type = agent_type
            THEN [Used(k) EXCEPT !.ledger[n] = row]
            ELSE [Used(k) EXCEPT !.ledger = Append(@, row)]

\* BaseAgent.log_execution: one row appended and committed, with the
\* status the caller passes and the completion time that status gives
log_execution(k, task_id, agent_type, status, subtask_id) ==
    IF Fails(k) THEN Raise(k)
    ELSE [Used(k) EXCEPT !.ledger = Append(@,
             [task_id |-> task_id, subtask_id |-> subtask_id,
              agent_type |-> agent_type, status |-> status,
              completed_at |-> execution_completed_at(status)])]

\* BaseAgent.update_task_status
update_task_status(k, task_id, status) ==
    IF Fails(k) THEN Raise(k)
    ELSE IF task_id \in 1..Len(k.tasks)
         THEN [Used(k) EXCEPT !.tasks[task_id].status = status]
         ELSE Used(k)

\* BaseAgent.update_subtask_status
update_subtask_status(k, subtask_id, status) ==
    IF Fails(k) THEN Raise(k)
    ELSE IF subtask_id \in 1..Len(k.subtasks)
         THEN [Used(k) EXCEPT !.subtasks[subtask_id].status = status]
         ELSE Used(k)

\* a handler that raised out of its own except block
Finish(k, r) == IF k.exc THEN Return(k, "raised") ELSE Return(k, r)


\* ---- the generative provider ----
PlanEntries == [agent_type : AgentTypes, order_index : 0..MaxIdx]
\* the TaskPlan.subtasks a provider call can return (any list validates)
Plans == UNION {[1..n -> PlanEntries] : n \in 0..MaxPlan}
\* chain.ainvoke: the call raises a ProviderError or returns the parsed
\* result; a planning call is answered with provPlan (the prompt is a
\* function of the task, planner.py:82-86, the same at every call)
provider_call(k) ==
    LET c == [k EXCEPT !.calls = @ + 1]
    IN IF Fails(c) THEN Raise(c) ELSE Used(c)

\* ---- PlannerAgent (src/app/agents/planner.py) ----
\* a variant that researches before it recalls
FallbackPlanSwapped == <<[agent_type |-> "research", order_index |-> 0],
                         [agent_type |-> "memory", order_index |-> 1],
                         [agent_type |-> "executor", order_index |-> 2]>>

\* the three SubtaskPlan of the degraded path
FallbackPlan == <<[agent_type |-> "memory", order_index |-> 0],
                  [agent_type |-> "research", order_index |-> 1],
                  [agent_type |-> "executor", order_index |-> 2]>>

\* Subtask(task_id, title, description, agent_type, order_index, "pending")
SubtaskRows(task_id, plan) ==
    [j \in 1..Len(plan) |->
        [task_id |-> task_id, agent_type |-> plan[j].agent_type,
         order_index |-> plan[j].order_index, status |-> "pending"]]

\* the loop of db.add(subtask) followed by one db.commit()
add_subtasks(k, task_id, plan) ==
    IF Fails(k) THEN Raise(k)
    ELSE [Used(k) EXCEPT !.subtasks = @ \o SubtaskRows(task_id, plan)]

\* rows committed, then Task.status, then the success record
plan_and_log(k, task_id, plan) ==
    LET k1 == add_subtasks(k, task_id, plan)
        k2 == IF k1.exc THEN k1 ELSE update_task_status(k1, task_id, "planning")
        k3 == IF k2.exc THEN k2
              ELSE log_execution(k2, task_id, "planner", "completed", 0)
    IN IF k3.exc THEN k3 ELSE Return(k3, "success")

\* PlannerAgent._create_fallback_subtasks: its except logs without subtask_id
create_fallback_subtasks(k, task_id) ==
    LET r == plan_and_log(k, task_id, FallbackPlan)
    IN IF ~r.exc THEN ReturnFallback(r, Len(FallbackPlan))
       ELSE LET e == log_execution(Caught(r), task_id, "planner", "failed", 0)
            IN IF e.exc THEN e ELSE Return(e, "error")

\* the try block of PlannerAgent.execute
planner_try(k, task_id) ==
    IF task_id \notin 1..Len(k.tasks) THEN [k EXCEPT !.exc = TRUE]
    ELSE IF ~apiKey THEN create_fallback_subtasks(k, task_id)
    ELSE LET k0 == provider_call(k)
         IN IF k0.exc THEN k0 ELSE plan_and_log(k0, task_id, provPlan)

\* PlannerAgent.execute
planner_execute(k, task_id, subtask_id) ==
    LET r == planner_try(k, task_id)
    IN IF ~r.exc THEN r
       ELSE Finish(log_execution(Caught(r), task_id, "planner", "failed", subtask_id),
                   "error")

\* ---- MemoryAgent (src/app/agents/memory.py) ----
\* MemoryAgent._update_memory_access: the commit of the refreshed rows
update_memory_access(k) == IF Fails(k) THEN Raise(k) ELSE Used(k)

\* MemoryAgent.execute; the reads (_get_user_context, _get_task_history,
\* _get_relevant_memories) catch their own faults
memory_execute(k, task_id, subtask_id) ==
    LET k0 == IF task_id \notin 1..Len(k.tasks) THEN [k EXCEPT !.exc = TRUE]
              ELSE update_memory_access(k)
        k1 == IF k0.exc THEN k0
              ELSE log_execution(k0, task_id, "memory", "completed", subtask_id)
    IN IF ~k1.exc THEN Return(k1, "success")
       ELSE Finish(log_execution(Caught(k1), task_id, "memory", "failed", subtask_id),
                   "error")

\* ---- ResearchAgent and ExecutorAgent (same control flow) ----
\* the except block of execute and of the _perform_fallback_* function
execute_except(k, agent_type, task_id, subtask_id) ==
    LET k1 == log_execution(Caught(k), task_id, agent_type, "failed", subtask_id)
        k2 == IF k1.exc \/ subtask_id = 0 THEN k1
              ELSE update_subtask_status(k1, subtask_id, "failed")
    IN Finish(k2, "error")

\* execute up to its first await: the subtask is marked executing
execute_begin(k, agent_type, task_id, subtask_id) ==
    LET k0 == IF task_id \notin 1..Len(k.tasks) THEN [k EXCEPT !.exc = TRUE]
              ELSE IF subtask_id \in 1..Len(k.subtasks)
                   THEN update_subtask_status(k, subtask_id, "executing")
                   ELSE k
    IN IF k0.exc THEN execute_except(k0, agent_type, task_id, subtask_id)
       ELSE Return(k0, "suspend")

\* the success record, then the subtask marked completed
log_and_complete(k, agent_type, task_id, subtask_id) ==
    LET k1 == log_execution(k, task_id, agent_type, "completed", subtask_id)
    IN IF k1.exc \/ subtask_id \notin 1..Len(k.subtasks) THEN k1
       ELSE update_subtask_status(k1, subtask_id, "completed")

\* entries of basic_actions (executor.py:143-147) and of basic_findings
\* (research.py:143-147)
BasicEntries == 3

\* a variant whose outcome does not carry the fallback_mode flag
perform_fallback_unmarked(k, agent_type, task_id, subtask_id) ==
    LET r == log_and_complete(k, agent_type, task_id, subtask_id)
    IN IF ~r.exc THEN Return(r, "success")
       ELSE execute_except(r, agent_type, task_id, subtask_id)

\* _perform_fallback_execution / _perform_fallback_research after the sleep
perform_fallback(k, agent_type, task_id, subtask_id) ==
    LET r == log_and_complete(k, agent_type, task_id, subtask_id)
    IN IF ~r.exc THEN ReturnFallback(r, BasicEntries)
       ELSE execute_except(r, agent_type, task_id, subtask_id)

\* execute from the await on: the provider answered (or the degraded path ran)
execute_finish(k, agent_type, task_id, subtask_id) ==
    LET r == IF ~apiKey THEN perform_fallback(k, agent_type, task_id, subtask_id)
             ELSE LET k0 == provider_call(k)
                      c == IF k0.exc THEN k0
                           ELSE log_and_complete(k0, agent_type, task_id, subtask_id)
                  IN IF c.exc THEN c ELSE Return(c, "success")
    IN IF r.exc THEN execute_except(r, agent_type, task_id, subtask_id) ELSE r


\* ---- ControllerAgent (src/app/agents/controller.py) ----
IdleProc == [pc |-> "idle", task |-> 0, sid |-> 0, list |-> <<>>, i |-> 0,
             completed |-> 0, failed |-> 0, mem |-> "none", plan |-> "none",
             ret |-> "none",
             \* the top-level except of execute was entered; records the run
             \* appended under agent type controller
             top |-> FALSE, ctl |-> 0,
             \* the response create_task gave the request that launched the run
             ack |-> "none",
             \* history of the run: subtasks of the task when step 2 was
             \* reached, subtasks handed to a handler, handler outcomes, the
             \* status each got after its handler returned, ledger positions
             \* of the records its handlers appended
             nAtPlan |-> 0, dispatched |-> <<>>, outs |-> <<>>, marks |-> <<>>,
             recs |-> <<>>]

NoInv == [agent |-> "none", task |-> 0, sid |-> 0, res |-> "none",
          recs |-> 0, added |-> 0, answered |-> FALSE, calls |-> 0,
          payload |-> NoPayload, faulty |-> FALSE]

\* what the handler invocation that ended in context k (oracle f) did to the
\* store, whether its provider call returned a result, the provider calls of
\* its last phase, its payload and whether that phase met a fault
Inv(agent, task_id, subtask_id, k, f) ==
    [agent |-> agent, task |-> task_id, sid |-> subtask_id, res |-> k.res,
     recs |-> Len(k.ledger) - Len(ledger),
     added |-> Len(k.subtasks) - Len(subtasks),
     answered |-> apiKey /\ ~f[1], calls |-> k.calls, payload |-> k.payload,
     faulty |-> CountTrue(f) > CountTrue(k.f)]

\* the tables and the fault count after a handler phase that chose oracle f
Commit(k, f) ==
    /\ tasks' = k.tasks
    /\ ledger' = k.ledger
    /\ faults' = faults + IF CountTrue(f) > CountTrue(k.f) THEN 1 ELSE 0

\* the run's record with the ledger positions context k appended
Logged(pr, k) ==
    [pr EXCEPT !.recs = @ \o [n \in 1..(Len(k.ledger) - Len(ledger)) |-> Len(ledger) + n]]

\* the first idle invocation slot
FreeProc(p) == procs[p].pc = "idle" /\ \A q \in 1..(p - 1) : procs[q].pc # "idle"

\* a variant that hands an unknown agent type to the planner
ResolveToPlanner(agent_type) == IF agent_type \in Registry THEN agent_type ELSE "planner"

\* self.agents lookup with the executor default (controller.py:119-125)
Resolve(agent_type) == IF agent_type \in Registry THEN agent_type ELSE "executor"

\* success_rate >= num/den, where success_rate is completed/len(subtasks)
\* and 0 for an empty list (controller.py:154)
RateAtLeast(completed, total, num, den) ==
    IF total = 0 THEN 0 >= num ELSE completed * den >= num * total

\* a variant with the completion threshold at 0.75
CompletionStatusLoose(completed, total) ==
    IF RateAtLeast(completed, total, 3, 4) THEN "completed"
    ELSE IF RateAtLeast(completed, total, 1, 2) THEN "partial"
    ELSE "failed"

\* the status chosen by ControllerAgent._update_task_completion
CompletionStatus(completed, total) ==
    IF RateAtLeast(completed, total, 4, 5) THEN "completed"
    ELSE IF RateAtLeast(completed, total, 1, 2) THEN "partial"
    ELSE "failed"

\* TaskService.create_task: the Task row is committed with status pending and
\* the run is handed to the event loop (asyncio.create_task); when the commit
\* raises, the response is "error", nothing is stored and no run is launched
CreateTask(p, fails) ==
    /\ cur = 0
    /\ Len(tasks) < MaxTasks
    /\ FreeProc(p)
    /\ IF fails
       THEN UNCHANGED vars
       ELSE /\ tasks' = Append(tasks, [status |-> "pending", completed_at |-> FALSE])
            /\ procs' = [procs EXCEPT ![p] = [IdleProc EXCEPT !.pc = "start",
                                                              !.task = Len(tasks) + 1,
                                                              !.ack = "started"]]
            /\ UNCHANGED <<memvars, bcvars, apiKey, provPlan, overlap, subtasks, ledger, cur, faults, apiCalls, lastInv>>

\* a variant that refuses a task another run is working on
InvokeRunSingleFlight(p, t, sid) ==
    /\ cur = 0
    /\ FreeProc(p)
    /\ \A q \in Procs : procs[q].task = t => procs[q].pc \in {"idle", "done"}
    /\ overlap \/ \A q \in Procs : procs[q].pc \in {"idle", "done"}
    /\ t \in 1..Len(tasks) \/ t = MissingTask
    /\ sid = 0 \/ sid \in SubtaskIdsOf(subtasks, t)
    /\ procs' = [procs EXCEPT ![p] = [IdleProc EXCEPT !.pc = "start", !.task = t,
                                                      !.sid = sid]]
    /\ UNCHANGED <<memvars, bcvars, apiKey, provPlan, overlap, tasks, subtasks, ledger, cur, faults, apiCalls, lastInv>>

\* ControllerAgent.execute called on a task id, existing or not; nothing
\* looks at the runs in progress (overlap only bounds the behaviours explored)
InvokeRun(p, t, sid) ==
    /\ cur = 0
    /\ FreeProc(p)
    /\ overlap \/ \A q \in Procs : procs[q].pc \in {"idle", "done"}
    /\ t \in 1..Len(tasks) \/ t = MissingTask
    /\ sid = 0 \/ sid \in SubtaskIdsOf(subtasks, t)
    /\ procs' = [procs EXCEPT ![p] = [IdleProc EXCEPT !.pc = "start", !.task = t,
                                                      !.sid = sid]]
    /\ UNCHANGED <<memvars, bcvars, apiKey, provPlan, overlap, tasks, subtasks, ledger, cur, faults, apiCalls, lastInv>>

\* the run ends with an error outcome returned by a step
EndRun(p, pr) == [procs EXCEPT ![p] = [pr EXCEPT !.pc = "done", !.ret = "error"]]

\* the except block of execute: one failed record under agent type
\* controller, then the error outcome; a raise of the record leaves execute
execute_except_top(k, task_id, subtask_id) ==
    Finish(log_execution(Caught(k), task_id, "controller", "failed", subtask_id),
           "error")

\* a variant in which the creating request awaits the run
EndRunTopAwaited(p, k) ==
    [procs EXCEPT ![p] = [procs[p] EXCEPT !.pc = "done", !.ret = k.res, !.top = TRUE,
                                          !.ctl = @ + Len(k.ledger) - Len(ledger),
                                          !.ack = IF @ = "started" THEN k.res ELSE @]]

\* the run ends in context k, which went through the except block of execute;
\* a run launched by create_task ends inside _execute_workflow, which prints
\* the outcome or the exception
EndRunTop(p, k) ==
    [procs EXCEPT ![p] = [procs[p] EXCEPT !.pc = "done", !.ret = k.res, !.top = TRUE,
                                          !.ctl = @ + Len(k.ledger) - Len(ledger)]]

\* execute on a task id without a Task row: ValueError, caught at the top;
\* the store rejects the record's task_id or not
RunTaskNotFound(p, rejected) ==
    /\ cur = 0
    /\ procs[p].pc = "start"
    /\ procs[p].task \notin 1..Len(tasks)
    /\ LET k == execute_except_top(Ctx(<<rejected>>), procs[p].task, procs[p].sid)
       IN /\ ledger' = k.ledger
          /\ procs' = EndRunTop(p, k)
    /\ UNCHANGED <<memvars, bcvars, apiKey, provPlan, overlap, tasks, subtasks, cur, faults, apiCalls, lastInv>>

\* execute, step 1: _execute_memory_agent, which turns a raise into an error
RunLoadContext(p, f) ==
    /\ cur = 0
    /\ procs[p].pc = "start"
    /\ procs[p].task \in 1..Len(tasks)
    /\ LET t == procs[p].task
           k == memory_execute(Ctx(f), t, 0)
       IN /\ Commit(k, f)
          /\ subtasks' = k.subtasks
          /\ lastInv' = Inv("memory", t, 0, k, f)
          /\ IF k.res = "success"
             THEN /\ procs' = [procs EXCEPT ![p] = [Logged(procs[p], k) EXCEPT
                                                       !.pc = "plan", !.mem = "success"]]
                  /\ cur' = p
             ELSE /\ procs' = EndRun(p, [Logged(procs[p], k) EXCEPT !.mem = "error"])
                  /\ cur' = 0
    /\ UNCHANGED <<memvars, bcvars, apiKey, provPlan, overlap, apiCalls>>

\* the run after the planning handler returned in context k
AfterPlanning(p, k, n) ==
    IF k.res = "success"
    THEN /\ procs' = [procs EXCEPT ![p] = [Logged(procs[p], k) EXCEPT
                              !.pc = "fetch", !.plan = "success", !.nAtPlan = n]]
         /\ cur' = p
    ELSE /\ procs' = EndRun(p, [Logged(procs[p], k) EXCEPT !.plan = "error",
                                                           !.nAtPlan = n])
         /\ cur' = 0

\* execute, step 2 with a subtask_id: the planner is not called
RunPlanSkip(p) ==
    /\ cur = p
    /\ procs[p].pc = "plan"
    /\ procs[p].sid # 0
    /\ procs' = [procs EXCEPT ![p].pc = "fetch", ![p].plan = "skipped",
            ![p].nAtPlan = Cardinality(SubtaskIdsOf(subtasks, procs[p].task))]
    /\ UNCHANGED <<memvars, bcvars, apiKey, provPlan, overlap, tasks, subtasks, ledger, cur, faults, apiCalls, lastInv>>

\* execute, step 2 without credentials: the planner runs to its end
RunPlanFallback(p, f) ==
    /\ cur = p
    /\ procs[p].pc = "plan"
    /\ procs[p].sid = 0
    /\ ~apiKey
    /\ Len(subtasks) + Len(FallbackPlan) <= MaxSubtasks
    /\ LET t == procs[p].task
           k == planner_execute(Ctx(f), t, 0)
       IN /\ Commit(k, f)
          /\ subtasks' = k.subtasks
          /\ lastInv' = Inv("planner", t, 0, k, f)
          /\ AfterPlanning(p, k, Cardinality(SubtaskIdsOf(subtasks, t)))
    /\ UNCHANGED <<memvars, bcvars, apiKey, provPlan, overlap, apiCalls>>

\* execute, step 2 with credentials: the planner awaits the provider
RunPlanProvider(p) ==
    /\ cur = p
    /\ procs[p].pc = "plan"
    /\ procs[p].sid = 0
    /\ apiKey
    /\ procs' = [procs EXCEPT ![p].pc = "plan_wait", ![p].plan = "invoked",
            ![p].nAtPlan = Cardinality(SubtaskIdsOf(subtasks, procs[p].task))]
    /\ cur' = 0
    /\ UNCHANGED <<memvars, bcvars, apiKey, provPlan, overlap, tasks, subtasks, ledger, faults, apiCalls, lastInv>>

\* the provider answered the planner of step 2
RunPlanResume(p, f) ==
    /\ cur = 0
    /\ procs[p].pc = "plan_wait"
    /\ Len(subtasks) + Len(provPlan) <= MaxSubtasks
    /\ LET t == procs[p].task
           k == planner_execute(Ctx(f), t, 0)
       IN /\ Commit(k, f)
          /\ subtasks' = k.subtasks
          /\ lastInv' = Inv("planner", t, 0, k, f)
          /\ AfterPlanning(p, k, procs[p].nAtPlan)
    /\ UNCHANGED <<memvars, bcvars, apiKey, provPlan, overlap, apiCalls>>

\* _execute_subtasks: the query of the task's subtasks by order_index
RunFetch(p) ==
    /\ cur = p
    /\ procs[p].pc = "fetch"
    /\ LET list == OrderedSubtasks(subtasks, procs[p].task)
       IN procs' = [procs EXCEPT ![p].list = list, ![p].i = 1,
                       ![p].pc = IF list = <<>> THEN "aggregate" ELSE "dispatch"]
    /\ UNCHANGED <<memvars, bcvars, apiKey, provPlan, overlap, tasks, subtasks, ledger, cur, faults, apiCalls, lastInv>>

\* the subtask the loop of run p is at
Current(p) == procs[p].list[procs[p].i]

\* the pc after iteration i of the loop
NextPc(pr) == IF pr.i >= Len(pr.list) THEN "aggregate" ELSE "dispatch"

\* the run's record once subtask list[i] is handed to its handler
Dispatched(pr) == [pr EXCEPT !.dispatched = Append(@, pr.list[pr.i])]

\* a variant in which a handler's raise leaves the loop
AfterHandlerAbort(p, pr, k) ==
    LET st == pr.list[pr.i]
        ok == k.res = "success"
        marked == [k.subtasks EXCEPT
                      ![st].status = IF ok THEN "completed" ELSE "failed"]
        pr1 == [Logged(pr, k) EXCEPT !.completed = IF ok THEN @ + 1 ELSE @,
                                     !.failed = IF ok THEN @ ELSE @ + 1,
                                     !.outs = Append(@, k.res),
                                     !.marks = Append(@, marked[st].status)]
    IN /\ subtasks' = marked
       /\ IF k.res = "raised"
          THEN /\ procs' = [procs EXCEPT ![p] = [pr1 EXCEPT !.pc = "aggregate"]]
               /\ cur' = p
          ELSE /\ procs' = [procs EXCEPT ![p] = [pr1 EXCEPT !.pc = "sleep"]]
               /\ cur' = 0

\* the rest of a loop iteration of run p (record pr) once the handler
\* returned in context k: success counts and marks completed, an error
\* outcome counts and marks failed, both then sleep; a raise is caught,
\* counts and marks failed, and the loop goes on without the sleep
AfterHandler(p, pr, k) ==
    LET st == pr.list[pr.i]
        ok == k.res = "success"
        marked == [k.subtasks EXCEPT
                      ![st].status = IF ok THEN "completed" ELSE "failed"]
        pr1 == [Logged(pr, k) EXCEPT !.completed = IF ok THEN @ + 1 ELSE @,
                                     !.failed = IF ok THEN @ ELSE @ + 1,
                                     !.outs = Append(@, k.res),
                                     !.marks = Append(@, marked[st].status)]
    IN /\ subtasks' = marked
       /\ IF k.res = "raised"
          THEN /\ procs' = [procs EXCEPT ![p] = [pr1 EXCEPT !.pc = NextPc(pr),
                                                            !.i = @ + 1]]
               /\ cur' = p
          ELSE /\ procs' = [procs EXCEPT ![p] = [pr1 EXCEPT !.pc = "sleep"]]
               /\ cur' = 0

\* the handler of a loop iteration awaits (the provider, a sleep)
Suspend(p, pr, k) ==
    /\ subtasks' = k.subtasks
    /\ procs' = [procs EXCEPT ![p] = [pr EXCEPT !.pc = "h_wait"]]
    /\ cur' = 0

\* a loop iteration whose handler is the memory agent: it never suspends
RunDispatchMemory(p, f) ==
    /\ cur = p
    /\ procs[p].pc = "dispatch"
    /\ Resolve(subtasks[Current(p)].agent_type) = "memory"
    /\ LET t == procs[p].task
           k == memory_execute(Ctx(f), t, Current(p))
       IN /\ Commit(k, f)
          /\ lastInv' = Inv("memory", t, Current(p), k, f)
          /\ AfterHandler(p, Dispatched(procs[p]), k)
    /\ UNCHANGED <<memvars, bcvars, apiKey, provPlan, overlap, apiCalls>>

\* a loop iteration whose handler is the planner: it runs to its end
\* without credentials and awaits the provider with them
RunDispatchPlanner(p, f) ==
    /\ cur = p
    /\ procs[p].pc = "dispatch"
    /\ Resolve(subtasks[Current(p)].agent_type) = "planner"
    /\ IF apiKey
       THEN /\ procs' = [procs EXCEPT ![p] = [Dispatched(procs[p]) EXCEPT
                                                 !.pc = "h_wait"]]
            /\ cur' = 0
            /\ UNCHANGED <<tasks, subtasks, ledger, faults, lastInv>>
       ELSE /\ Len(subtasks) + Len(FallbackPlan) <= MaxSubtasks
            /\ LET t == procs[p].task
                   k == planner_execute(Ctx(f), t, Current(p))
               IN /\ Commit(k, f)
                  /\ lastInv' = Inv("planner", t, Current(p), k, f)
                  /\ AfterHandler(p, Dispatched(procs[p]), k)
    /\ UNCHANGED <<memvars, bcvars, apiKey, provPlan, overlap, apiCalls>>

\* a loop iteration whose handler is the research or the executor agent: the
\* handler marks the subtask executing and awaits
RunDispatchWorker(p, f) ==
    /\ cur = p
    /\ procs[p].pc = "dispatch"
    /\ Resolve(subtasks[Current(p)].agent_type) \in {"research", "executor"}
    /\ LET t == procs[p].task
           a == Resolve(subtasks[Current(p)].agent_type)
           k == execute_begin(Ctx(f), a, t, Current(p))
       IN /\ Commit(k, f)
          /\ IF k.res = "suspend"
             THEN /\ Suspend(p, Dispatched(procs[p]), k)
                  /\ lastInv' = lastInv
             ELSE /\ AfterHandler(p, Dispatched(procs[p]), k)
                  /\ lastInv' = Inv(a, t, Current(p), k, f)
    /\ UNCHANGED <<memvars, bcvars, apiKey, provPlan, overlap, apiCalls>>

\* the awaited handler of a loop iteration resumes and returns
RunHandlerResume(p, f) ==
    /\ cur = 0
    /\ procs[p].pc = "h_wait"
    /\ LET t == procs[p].task
           a == Resolve(subtasks[Current(p)].agent_type)
           k == IF a = "planner" THEN planner_execute(Ctx(f), t, Current(p))
                ELSE execute_finish(Ctx(f), a, t, Current(p))
       IN /\ a = "planner" => Len(subtasks) + Len(provPlan) <= MaxSubtasks
          /\ Commit(k, f)
          /\ lastInv' = Inv(a, t, Current(p), k, f)
          /\ AfterHandler(p, procs[p], k)
    /\ UNCHANGED <<memvars, bcvars, apiKey, provPlan, overlap, apiCalls>>

\* asyncio.sleep(1) between two subtasks is over
RunSleepDone(p) ==
    /\ cur = 0
    /\ procs[p].pc = "sleep"
    /\ procs' = [procs EXCEPT ![p].pc = NextPc(procs[p]), ![p].i = @ + 1]
    /\ cur' = p
    /\ UNCHANGED <<memvars, bcvars, apiKey, provPlan, overlap, tasks, subtasks, ledger, faults, apiCalls, lastInv>>

\* a variant that sets the status without the completion time
RunAggregateUnstamped(p) ==
    /\ cur = p
    /\ procs[p].pc = "aggregate"
    /\ LET t == procs[p].task
           s == CompletionStatus(procs[p].completed, Len(procs[p].list))
       IN tasks' = [tasks EXCEPT ![t].status = s]
    /\ procs' = [procs EXCEPT ![p].pc = "finish"]
    /\ UNCHANGED <<memvars, bcvars, apiKey, provPlan, overlap, subtasks, ledger, cur, faults, apiCalls, lastInv>>

\* execute, step 4: _update_task_completion with the loop's counts
RunAggregate(p) ==
    /\ cur = p
    /\ procs[p].pc = "aggregate"
    /\ LET t == procs[p].task
           s == CompletionStatus(procs[p].completed, Len(procs[p].list))
       IN tasks' = [tasks EXCEPT ![t].status = s,
                       ![t].completed_at = IF s = "completed" THEN TRUE ELSE @]
    /\ procs' = [procs EXCEPT ![p].pc = "finish"]
    /\ UNCHANGED <<memvars, bcvars, apiKey, provPlan, overlap, subtasks, ledger, cur, faults, apiCalls, lastInv>>

\* execute, the final record under agent type controller and the return; a
\* raise of that record is caught by the except block of execute
RunFinish(p, f) ==
    /\ cur = p
    /\ procs[p].pc = "finish"
    /\ LET t == procs[p].task
           k == log_execution(Ctx(f), t, "controller", "completed", procs[p].sid)
           e == execute_except_top(k, t, procs[p].sid)
       IN IF ~k.exc
          THEN /\ Commit(k, f)
               /\ procs' = [procs EXCEPT ![p].pc = "done", ![p].ret = "success",
                                         ![p].ctl = @ + 1]
          ELSE /\ Commit(e, f)
               /\ procs' = EndRunTop(p, e)
    /\ cur' = 0
    /\ UNCHANGED <<memvars, bcvars, apiKey, provPlan, overlap, subtasks, apiCalls, lastInv>>

\* ---- the progress projector (reads of the store) ----
\* ControllerAgent._get_current_step on the fetched list: the first subtask
\* that is executing or pending decides; a title is modelled by the subtask id
RECURSIVE get_current_step_from(_, _, _)
get_current_step_from(S, list, j) ==
    IF j > Len(list)
    THEN [kind |-> IF \A n \in 1..Len(list) : S[list[n]].status = "completed"
                   THEN "Completed" ELSE "Unknown",
          id |-> 0]
    ELSE IF S[list[j]].status = "executing" THEN [kind |-> "title", id |-> list[j]]
    ELSE IF S[list[j]].status = "pending" THEN [kind |-> "Next", id |-> list[j]]
    ELSE get_current_step_from(S, list, j + 1)

get_current_step(S, list) == get_current_step_from(S, list, 1)

\* the current_step of TaskService.get_task_status: the same loop, and None
\* when it finds no subtask
current_step(S, list) ==
    LET c == get_current_step(S, list)
    IN IF c.kind \in {"title", "Next"} THEN c ELSE [kind |-> "None", id |-> 0]

\* sum(1 for st in subtasks if st.status == "completed")
completed_subtasks(S, list) ==
    Cardinality({n \in 1..Len(list) : S[list[n]].status = "completed"})

\* a variant that counts every subtask that is no longer pending
progress_percentage_started(S, list) ==
    IF Len(list) > 0
    THEN [num |-> 100 * Cardinality({n \in 1..Len(list) : S[list[n]].status # "pending"}),
          den |-> Len(list)]
    ELSE [num |-> 0, den |-> 1]

\* (completed_subtasks / total_subtasks * 100) if total_subtasks > 0 else 0,
\* as the fraction num/den
progress_percentage(S, list) ==
    IF Len(list) > 0
    THEN [num |-> 100 * completed_subtasks(S, list), den |-> Len(list)]
    ELSE [num |-> 0, den |-> 1]

\* executions[-5:]
RecentCount == 5

\* the AgentExecution rows of task_id in started_at order; log_execution
\* stamps started_at when it adds the row, so a row's started_at is its place
\* in the ledger
executions_of(L, task_id) ==
    LET F[n \in 0..Len(L)] ==
            IF n = 0 THEN <<>>
            ELSE IF L[n].task_id = task_id
                 THEN Append(F[n - 1], [agent_type |-> L[n].agent_type,
                                        status |-> L[n].status, started_at |-> n])
                 ELSE F[n - 1]
    IN F[Len(L)]

\* a variant that keeps the first rows
recent_executions_first(L, task_id) ==
    LET ex == executions_of(L, task_id)
    IN SubSeq(ex, 1, IF Len(ex) > RecentCount THEN RecentCount ELSE Len(ex))

\* recent_executions of get_task_progress: the last rows of the task
recent_executions(L, task_id) ==
    LET ex == executions_of(L, task_id)
    IN SubSeq(ex, IF Len(ex) > RecentCount THEN Len(ex) - RecentCount + 1 ELSE 1, Len(ex))

\* the snapshot ControllerAgent.get_task_progress returns for task t
get_task_progress(t) ==
    IF t \notin 1..Len(tasks) THEN [error |-> TRUE]
    ELSE LET list == OrderedSubtasks(subtasks, t)
         IN [error |-> FALSE, task_status |-> tasks[t].status,
             total_subtasks |-> Len(list),
             completed_subtasks |-> completed_subtasks(subtasks, list),
             progress_percentage |-> progress_percentage(subtasks, list),
             current_step |-> get_current_step(subtasks, list),
             recent_executions |-> recent_executions(ledger, t)]

\* the TaskStatus TaskService.get_task_status returns for task t
get_task_status(t) ==
    IF t \notin 1..Len(tasks) THEN [status |-> "not_found"]
    ELSE LET list == OrderedSubtasks(subtasks, t)
         IN [status |-> tasks[t].status,
             progress |-> progress_percentage(subtasks, list),
             current_step |-> current_step(subtasks, list)]

\* a variant that marks the task as seen
GetTaskProgressTouching(t) ==
    /\ cur = 0
    /\ t \in 1..Len(tasks)
    /\ tasks[t].status = "pending"
    /\ tasks' = [tasks EXCEPT ![t].status = "executing"]
    /\ UNCHANGED <<memvars, bcvars, apiKey, provPlan, overlap, subtasks, ledger, procs, cur, faults, apiCalls, lastInv>>

\* GET /tasks/{task_id}/progress: queries only; the caller gets
\* get_task_progress(t) of the state the request meets
GetTaskProgress(t) ==
    /\ cur = 0
    /\ UNCHANGED vars

\* TaskService.get_task_status: queries only; the caller gets
\* get_task_status(t) of the state the request meets
GetTaskStatus(t) ==
    /\ cur = 0
    /\ UNCHANGED vars

\* the list TaskService.get_user_tasks returns for the user who owns the
\* tasks: newest first, each with its counts
get_user_tasks ==
    [n \in 1..Len(tasks) |->
        LET t == Len(tasks) + 1 - n
            list == OrderedSubtasks(subtasks, t)
        IN [id |-> t, status |-> tasks[t].status,
            completed_at |-> tasks[t].completed_at,
            subtask_count |-> Len(list),
            completed_subtasks |-> completed_subtasks(subtasks, list),
            progress |-> progress_percentage(subtasks, list)]]

\* TaskService.get_user_tasks: queries only; the caller gets get_user_tasks
\* of the state the request meets
GetUserTasks ==
    /\ cur = 0
    /\ UNCHANGED vars

\* POST /agents/planner/execute: the planner called on a task directly
ApiExecutePlanner(t, f) ==
    /\ cur = 0
    /\ apiCalls < MaxApiCalls
    /\ overlap \/ \A q \in Procs : procs[q].pc \in {"idle", "done"}
    /\ t \in 1..Len(tasks)
    /\ Len(subtasks) + Len(IF apiKey THEN provPlan ELSE FallbackPlan) <= MaxSubtasks
    /\ LET k == planner_execute(Ctx(f), t, 0)
       IN /\ Commit(k, f)
          /\ subtasks' = k.subtasks
          /\ lastInv' = Inv("planner", t, 0, k, f)
    /\ apiCalls' = apiCalls + 1
    /\ UNCHANGED <<memvars, bcvars, apiKey, provPlan, overlap, procs, cur>>

\* the provider plan under which overlapping runs are explored
OverlapPlan == <<[agent_type |-> "research", order_index |-> 0]>>

\* no broadcast has been started yet
NoBroadcast == [pc |-> "idle", i |-> 0, start |-> <<>>, delivered |-> {},
                quiet |-> TRUE]

\* no context load has happened yet
NoLoad == [n |-> 0, user |-> 0, context_key |-> <<>>, data |-> <<>>,
           stored |-> FALSE, failedStore |-> FALSE, list |-> <<>>,
           returned |-> <<>>, res |-> "none", before |-> <<>>, at |-> 0]

Init ==
    /\ apiKey \in BOOLEAN
    /\ provPlan \in IF apiKey THEN Plans ELSE {<<>>}
    /\ tasks = <<>>
    /\ subtasks = <<>>
    /\ ledger = <<>>
    /\ procs = [p \in Procs |-> IdleProc]
    /\ cur = 0
    /\ overlap \in IF apiKey /\ provPlan # OverlapPlan THEN {FALSE} ELSE BOOLEAN
    /\ faults = IF overlap THEN MaxFaults ELSE 0
    /\ apiCalls = 0
    /\ lastInv = NoInv
    /\ memories = <<>>
    /\ clock = 1
    /\ lastLoad = NoLoad
    /\ prevLoad = NoLoad
    /\ active_connections = <<>>
    /\ closed = {}
    /\ bcast = NoBroadcast

Next ==
    \/ \E p \in Procs, fails \in BOOLEAN : CreateTask(p, fails)
    \/ \E p \in Procs, t \in TaskIds \cup {MissingTask}, sid \in 0..1 : InvokeRun(p, t, sid)
    \/ \E p \in Procs, rejected \in BOOLEAN : RunTaskNotFound(p, rejected)
    \/ \E p \in Procs, f \in Oracles(MaxFaults - faults) : RunLoadContext(p, f)
    \/ \E p \in Procs : RunPlanSkip(p)
    \/ \E p \in Procs, f \in Oracles(MaxFaults - faults) : RunPlanFallback(p, f)
    \/ \E p \in Procs : RunPlanProvider(p)
    \/ \E p \in Procs, f \in Oracles(MaxFaults - faults) : RunPlanResume(p, f)
    \/ \E p \in Procs : RunFetch(p)
    \/ \E p \in Procs, f \in Oracles(MaxFaults - faults) : RunDispatchMemory(p, f)
    \/ \E p \in Procs, f \in Oracles(MaxFaults - faults) : RunDispatchPlanner(p, f)
    \/ \E p \in Procs, f \in Oracles(MaxFaults - faults) : RunDispatchWorker(p, f)
    \/ \E p \in Procs, f \in Oracles(MaxFaults - faults) : RunHandlerResume(p, f)
    \/ \E p \in Procs : RunSleepDone(p)
    \/ \E p \in Procs : RunAggregate(p)
    \/ \E p \in Procs, f \in Oracles(MaxFaults - faults) : RunFinish(p, f)
    \/ \E t \in TaskIds \cup {MissingTask} : GetTaskProgress(t)
    \/ \E t \in TaskIds \cup {MissingTask} : GetTaskStatus(t)
    \/ GetUserTasks
    \/ \E t \in TaskIds, f \in Oracles(MaxFaults - faults) : ApiExecutePlanner(t, f)

Spec == Init /\ [][Next]_vars

\* the program without provider credentials (self.llm is None in every
\* handler), runs one after another
DegInit ==
    /\ Init
    /\ ~apiKey
    /\ ~overlap

\* the steps that can be taken without provider credentials
DegNext ==
    \/ \E p \in Procs, fails \in BOOLEAN : CreateTask(p, fails)
    \/ \E p \in Procs, t \in TaskIds \cup {MissingTask}, sid \in 0..1 : InvokeRun(p, t, sid)
    \/ \E p \in Procs, rejected \in BOOLEAN : RunTaskNotFound(p, rejected)
    \/ \E p \in Procs, f \in Oracles(MaxFaults - faults) : RunLoadContext(p, f)
    \/ \E p \in Procs : RunPlanSkip(p)
    \/ \E p \in Procs, f \in Oracles(MaxFaults - faults) : RunPlanFallback(p, f)
    \/ \E p \in Procs : RunFetch(p)
    \/ \E p \in Procs, f \in Oracles(MaxFaults - faults) : RunDispatchMemory(p, f)
    \/ \E p \in Procs, f \in Oracles(MaxFaults - faults) : RunDispatchWorker(p, f)
    \/ \E p \in Procs, f \in Oracles(MaxFaults - faults) : RunHandlerResume(p, f)
    \/ \E p \in Procs : RunSleepDone(p)
    \/ \E p \in Procs : RunAggregate(p)
    \/ \E p \in Procs, f \in Oracles(MaxFaults - faults) : RunFinish(p, f)
    \/ \E t \in TaskIds \cup {MissingTask} : GetTaskProgress(t)
    \/ \E t \in TaskIds \cup {MissingTask} : GetTaskStatus(t)
    \/ GetUserTasks
    \/ \E t \in TaskIds, f \in Oracles(MaxFaults - faults) : ApiExecutePlanner(t, f)

\* the event loop runs a coroutine that is ready: a step that can be taken
\* is taken
DegSpec == DegInit /\ [][DegNext]_vars /\ WF_vars(DegNext)

TypeOK ==
    /\ apiKey \in BOOLEAN
    /\ cur \in 0..MaxProcs
    /\ faults \in 0..MaxFaults
    /\ \A i \in 1..Len(tasks) : tasks[i].status \in TaskStatuses
    /\ \A i \in 1..Len(subtasks) : subtasks[i].status \in SubtaskStatuses
    /\ Len(subtasks) <= MaxSubtasks


\* ---- the memory store (src/app/agents/memory.py) ----
\* Strings are sequences of characters; a JSON value is a number.
Users == 1..MaxUsers
\* Memory.key values and context_key inputs: plain, with the LIKE wildcard
\* "_", with the LIKE escape character
MemKeys == {<<"a", "b">>, <<"a", "_">>, <<"\\">>}
ContextKeys == {<<"a">>, <<"a", "_">>, <<"\\">>}
\* context_data inputs: lists of (key, value) with distinct keys
Bundles == {<<[key |-> <<"a", "b">>, value |-> 1]>>,
            <<[key |-> <<"\\">>, value |-> 2]>>,
            <<[key |-> <<"a", "b">>, value |-> 1], [key |-> <<"a", "_">>, value |-> 2]>>}

\* limit(10) of _get_relevant_memories
RelevantLimit == 10
\* importance of a record _store_context creates
DefaultImportance == 5

\* s LIKE pat in PostgreSQL: % any string, _ any character, backslash
\* escapes the next character
RECURSIVE like(_, _)
like(s, pat) ==
    IF pat = <<>> THEN s = <<>>
    ELSE IF Head(pat) = "%"
         THEN \E n \in 0..Len(s) : like(SubSeq(s, n + 1, Len(s)), Tail(pat))
    ELSE IF Head(pat) = "_" THEN s # <<>> /\ like(Tail(s), Tail(pat))
    ELSE IF Head(pat) = "\\" /\ Len(pat) >= 2
         THEN s # <<>> /\ Head(s) = pat[2] /\ like(Tail(s), SubSeq(pat, 3, Len(pat)))
    ELSE s # <<>> /\ Head(s) = Head(pat) /\ like(Tail(s), Tail(pat))

\* order_by(importance.desc(), last_accessed.desc()); rows equal on both are
\* taken by id
RECURSIVE SortMemories(_, _)
SortMemories(M, ids) ==
    IF ids = {} THEN <<>>
    ELSE LET m == CHOOSE i \in ids : \A j \in ids :
                      \/ M[i].importance > M[j].importance
                      \/ /\ M[i].importance = M[j].importance
                         /\ M[i].last_accessed > M[j].last_accessed
                      \/ /\ M[i].importance = M[j].importance
                         /\ M[i].last_accessed = M[j].last_accessed
                         /\ i <= j
         IN <<m>> \o SortMemories(M, ids \ {m})

\* a variant of the query without the owner filter
get_relevant_memories_any_user(M, user_id, context_key) ==
    LET ids == {i \in 1..Len(M) :
                   like(M[i].key, <<"%">> \o context_key \o <<"%">>)}
        sorted == SortMemories(M, ids)
    IN SubSeq(sorted, 1, IF Len(sorted) < RelevantLimit THEN Len(sorted)
                         ELSE RelevantLimit)

\* MemoryAgent._get_relevant_memories: the ids of the rows returned
get_relevant_memories(M, user_id, context_key) ==
    LET ids == {i \in 1..Len(M) :
                   /\ M[i].user_id = user_id
                   /\ like(M[i].key, <<"%">> \o context_key \o <<"%">>)}
        sorted == SortMemories(M, ids)
    IN SubSeq(sorted, 1, IF Len(sorted) < RelevantLimit THEN Len(sorted)
                         ELSE RelevantLimit)

\* the rows _store_context adds for a bundle
ContextRows(user_id, context_data, now) ==
    [j \in 1..Len(context_data) |->
        [user_id |-> user_id, memory_type |-> "context",
         key |-> context_data[j].key, value |-> context_data[j].value,
         importance |-> DefaultImportance, last_accessed |-> now + j]]

\* a variant that commits after every key
store_context_each(M, user_id, context_data, now, fails) ==
    IF fails
    THEN [rows |-> M \o SubSeq(ContextRows(user_id, context_data, now), 1,
                               Len(context_data) - 1),
          exc |-> TRUE]
    ELSE [rows |-> M \o ContextRows(user_id, context_data, now), exc |-> FALSE]

\* MemoryAgent._store_context: the rows are added and committed together; a
\* commit that raises is rolled back and raised again
store_context(M, user_id, context_data, now, fails) ==
    IF fails THEN [rows |-> M, exc |-> TRUE]
    ELSE [rows |-> M \o ContextRows(user_id, context_data, now), exc |-> FALSE]

\* a variant that refreshes every row of the table
update_memory_access_all(M, list, now, fails) ==
    IF fails THEN [rows |-> M, exc |-> TRUE]
    ELSE [rows |-> [i \in 1..Len(M) |-> [M[i] EXCEPT !.last_accessed = now + 1]],
          exc |-> FALSE]

\* MemoryAgent._update_memory_access: last_accessed of the listed rows, one
\* datetime.now() each, then one commit; rolled back and raised again when
\* the commit raises
update_memory_access_rows(M, list, now, fails) ==
    IF fails THEN [rows |-> M, exc |-> TRUE]
    ELSE [rows |-> [i \in 1..Len(M) |->
                       IF \E j \in 1..Len(list) : list[j] = i
                       THEN [M[i] EXCEPT !.last_accessed =
                                now + (CHOOSE j \in 1..Len(list) : list[j] = i)]
                       ELSE M[i]],
          exc |-> FALSE]

\* MemoryAgent.execute, lines 29-37, for a task of user_id: the relevant
\* memories are read, the bundle (if given) is stored, the rows read are
\* refreshed; a raise of either write makes the handler return an error
memory_load(user_id, context_key, hasData, context_data, fs, fu) ==
    LET list == get_relevant_memories(memories, user_id, context_key)
        st == IF hasData THEN store_context(memories, user_id, context_data, clock, fs)
              ELSE [rows |-> memories, exc |-> FALSE]
        t1 == clock + Len(context_data)
        up == IF st.exc THEN st
              ELSE update_memory_access_rows(st.rows, list, t1, fu)
    IN [rows |-> up.rows,
        now |-> t1 + Len(list) + 1,
        load |-> [n |-> lastLoad.n + 1, user |-> user_id, context_key |-> context_key,
                  data |-> IF hasData THEN context_data ELSE <<>>,
                  stored |-> hasData /\ ~st.exc,
                  failedStore |-> hasData /\ st.exc,
                  list |-> list,
                  returned |-> [j \in 1..Len(list) |->
                                   [key |-> memories[list[j]].key,
                                    value |-> memories[list[j]].value]],
                  res |-> IF up.exc THEN "error" ELSE "success",
                  before |-> memories, at |-> t1]]

\* the memory handler invoked without context_data, with the context_key
\* of the request (POST /agents/memory/execute)
LoadContext(user_id, context_key, fu) ==
    /\ lastLoad.n < MaxLoads
    /\ LET r == memory_load(user_id, context_key, FALSE, <<>>, FALSE, fu)
       IN /\ memories' = r.rows
          /\ clock' = r.now
          /\ lastLoad' = r.load
    /\ prevLoad' = lastLoad
    /\ UNCHANGED <<runvars, bcvars>>

\* the memory handler invoked with context_data (POST /agents/memory/execute)
StoreAndLoadContext(user_id, context_key, context_data, fs, fu) ==
    /\ lastLoad.n < MaxLoads
    /\ LET r == memory_load(user_id, context_key, TRUE, context_data, fs, fu)
       IN /\ memories' = r.rows
          /\ clock' = r.now
          /\ lastLoad' = r.load
    /\ prevLoad' = lastLoad
    /\ UNCHANGED <<runvars, bcvars>>

\* ten records of user 1 that outrank every record a bundle creates
Padding == [j \in 1..RelevantLimit |->
               [user_id |-> 1, memory_type |-> "preference", key |-> <<"a", "b">>,
                value |-> 0, importance |-> 9, last_accessed |-> j]]

\* records TaskService.store_memory created before: per user, key and
\* importance
InitRows == [user_id : Users, memory_type : {"preference"}, key : MemKeys,
             value : {0}, importance : {1, 9}, last_accessed : {0}]

\* the tables the memory store starts from: the padding or not, then up to
\* MaxInitMem records, the later the more recently accessed
InitTables ==
    {pad \o [j \in 1..Len(t) |-> [t[j] EXCEPT !.last_accessed = Len(pad) + j]] :
        pad \in {<<>>, Padding},
        t \in UNION {[1..n -> InitRows] : n \in 0..MaxInitMem}}

MemInit ==
    /\ apiKey = FALSE
    /\ provPlan = <<>>
    /\ overlap = FALSE
    /\ tasks = <<>>
    /\ subtasks = <<>>
    /\ ledger = <<>>
    /\ procs = [p \in Procs |-> IdleProc]
    /\ cur = 0
    /\ faults = 0
    /\ apiCalls = 0
    /\ lastInv = NoInv
    /\ memories \in InitTables
    /\ clock = Len(memories) + 1
    /\ lastLoad = NoLoad
    /\ prevLoad = NoLoad
    /\ active_connections = <<>>
    /\ closed = {}
    /\ bcast = NoBroadcast

MemNext ==
    \/ \E u \in Users, ck \in ContextKeys, fu \in BOOLEAN : LoadContext(u, ck, fu)
    \/ \E u \in Users, ck \in ContextKeys, d \in Bundles, fs \in BOOLEAN, fu \in BOOLEAN :
          StoreAndLoadContext(u, ck, d, fs, fu)

MemSpec == MemInit /\ [][MemNext]_vars


\* ---- the subscriber collection (src/app/api.py, ConnectionManager) ----
Sockets == 1..MaxSockets

\* the elements of a list
Range(l) == {l[j] : j \in 1..Len(l)}

\* list.remove(x): the list without its first element equal to x
Remove(l, x) ==
    LET n == CHOOSE j \in 1..Len(l) : l[j] = x /\ \A m \in 1..(j - 1) : l[m] # x
    IN SubSeq(l, 1, n - 1) \o SubSeq(l, n + 1, Len(l))

\* something else touched the collection or a socket while the broadcast was
\* suspended in a send, or after it returned
Disturbed == [bcast EXCEPT !.quiet = (bcast.pc = "idle")]

\* ConnectionManager.connect: a new socket is accepted and appended
Connect(w) ==
    /\ w \notin Range(active_connections)
    /\ w \notin closed
    /\ \A v \in Sockets : v < w => (v \in Range(active_connections) \/ v \in closed)
    /\ active_connections' = Append(active_connections, w)
    /\ bcast' = Disturbed
    /\ UNCHANGED <<runvars, memvars, closed>>

\* the peer of a connected socket goes away; the socket stays in the list
PeerGone(w) ==
    /\ w \in Range(active_connections)
    /\ w \notin closed
    /\ closed' = closed \cup {w}
    /\ bcast' = Disturbed
    /\ UNCHANGED <<runvars, memvars, active_connections>>

\* websocket_endpoint: its own send met WebSocketDisconnect, and
\* ConnectionManager.disconnect removes the socket
Disconnect(w) ==
    /\ w \in closed
    /\ w \in Range(active_connections)
    /\ active_connections' = Remove(active_connections, w)
    /\ bcast' = Disturbed
    /\ UNCHANGED <<runvars, memvars, closed>>

\* ConnectionManager.broadcast is called: the for loop takes an iterator
\* over the list itself
BroadcastStart ==
    /\ bcast.pc \in {"idle", "done"}
    /\ bcast' = [pc |-> "loop", i |-> 0, start |-> active_connections,
                 delivered |-> {}, quiet |-> TRUE]
    /\ UNCHANGED <<runvars, memvars, active_connections, closed>>

\* one iteration of the loop of broadcast: the iterator yields the element
\* at its index in the list as it is now and moves on by one; send_text
\* either delivers or raises, and the except block removes the socket from
\* the list
BroadcastSend ==
    /\ bcast.pc = "loop"
    /\ bcast.i < Len(active_connections)
    /\ LET w == active_connections[bcast.i + 1]
       IN IF w \in closed
          THEN /\ active_connections' = Remove(active_connections, w)
               /\ bcast' = [bcast EXCEPT !.i = @ + 1]
          ELSE /\ active_connections' = active_connections
               /\ bcast' = [bcast EXCEPT !.i = @ + 1, !.delivered = @ \cup {w}]
    /\ UNCHANGED <<runvars, memvars, closed>>

\* the iterator is past the end of the list: broadcast returns
BroadcastEnd ==
    /\ bcast.pc = "loop"
    /\ bcast.i >= Len(active_connections)
    /\ bcast' = [bcast EXCEPT !.pc = "done"]
    /\ UNCHANGED <<runvars, memvars, active_connections, closed>>

BcInit ==
    /\ apiKey = FALSE
    /\ provPlan = <<>>
    /\ overlap = FALSE
    /\ tasks = <<>>
    /\ subtasks = <<>>
    /\ ledger = <<>>
    /\ procs = [p \in Procs |-> IdleProc]
    /\ cur = 0
    /\ faults = 0
    /\ apiCalls = 0
    /\ lastInv = NoInv
    /\ memories = <<>>
    /\ clock = 1
    /\ lastLoad = NoLoad
    /\ prevLoad = NoLoad
    /\ active_connections = <<>>
    /\ closed = {}
    /\ bcast = NoBroadcast

BcNext ==
    \/ \E w \in Sockets : Connect(w)
    \/ \E w \in Sockets : PeerGone(w)
    \/ \E w \in Sockets : Disconnect(w)
    \/ BroadcastStart
    \/ BroadcastSend
    \/ BroadcastEnd

BcSpec == BcInit /\ [][BcNext]_vars


\* ---- properties ----
\* the position of a status in the lifecycle
\* pending -> planning -> executing -> {completed | partial | failed}
Rank(status) ==
    CASE status = "pending" -> 0
      [] status = "planning" -> 1
      [] status = "executing" -> 2
      [] OTHER -> 3

\* the records of task t that handlers (not the orchestrator) appended
HandlerRecords(L, t) ==
    SelectSeq(L, LAMBDA r : r.task_id = t /\ r.agent_type # "controller")

\* the handlers of run record pr that returned success
Successes(pr) == Cardinality({j \in 1..Len(pr.outs) : pr.outs[j] = "success"})

\* C1: no step moves Task.status to an earlier stage of the lifecycle, and a
\* completed, partial or failed task never becomes non-terminal again.
StatusMonotonic ==
    [][\A t \in 1..Len(tasks) : Rank(tasks'[t].status) >= Rank(tasks[t].status)]_vars

\* C2: a run that starts on a task whose status is completed, partial or
\* failed is a no-op: its first step ends it and leaves the Task, the
\* Subtasks and the task's handler records unchanged.
TerminalRunIsNoOp ==
    [][\A p \in Procs :
          (/\ procs[p].pc = "start"
           /\ procs[p].task \in 1..Len(tasks)
           /\ tasks[procs[p].task].status \in Terminal
           /\ procs'[p] # procs[p])
          => /\ procs'[p].pc = "done"
             /\ tasks' = tasks
             /\ subtasks' = subtasks
             /\ HandlerRecords(ledger', procs[p].task)
                    = HandlerRecords(ledger, procs[p].task)]_vars

OrderIndicesContiguous ==
    \A t \in 1..Len(tasks) :
        LET ids == SubtaskIdsOf(subtasks, t)
        IN /\ {subtasks[i].order_index : i \in ids} = 0..(Cardinality(ids) - 1)
           /\ \A i, j \in ids : i # j => subtasks[i].order_index # subtasks[j].order_index

\* C6: a run dispatches its subtasks in strictly ascending order index, and
\* the records its subtask handlers appended are in the ledger in that order.
DispatchStrictlyAscending ==
    \A p \in Procs :
        LET pr == procs[p]
            idx(i) == subtasks[i].order_index
        IN /\ \A a, b \in 1..Len(pr.dispatched) :
                 a < b => idx(pr.dispatched[a]) < idx(pr.dispatched[b])
           /\ \A a, b \in 1..Len(pr.recs) :
                 (/\ a < b
                  /\ ledger[pr.recs[a]].subtask_id # 0
                  /\ ledger[pr.recs[b]].subtask_id # 0)
                 => idx(ledger[pr.recs[a]].subtask_id)
                        <= idx(ledger[pr.recs[b]].subtask_id)

\* C7: the orchestrator invokes the planning handler iff the task has no
\* subtasks when step 2 is reached, and step 2 of a run on a task that has
\* subtasks inserts none.
PlanningIffUnplanned ==
    /\ [](\A p \in Procs :
             procs[p].plan # "none"
                 => (procs[p].plan # "skipped" <=> procs[p].nAtPlan = 0))
    /\ [][\A p \in Procs :
             (/\ procs[p].pc \in {"plan", "plan_wait"}
              /\ procs'[p] # procs[p]
              /\ SubtaskIdsOf(subtasks, procs[p].task) # {})
             => Len(subtasks') = Len(subtasks)]_vars

\* C8: when the planning handler returns an error outcome, its invocation
\* left none of its rows in the store, and the run ends with that outcome
\* without dispatching a subtask.
PlanningAllOrNothing ==
    /\ (lastInv.agent = "planner" /\ lastInv.res = "error") => lastInv.added = 0
    /\ \A p \in Procs :
          procs[p].plan = "error"
              => procs[p].pc = "done" /\ procs[p].ret = "error"
                 /\ procs[p].dispatched = <<>>

\* C9: when the provider returns a plan with no subtasks, the planning
\* handler returns an error outcome.
ZeroPlanRejected ==
    (lastInv.agent = "planner" /\ lastInv.answered /\ provPlan = <<>>)
        => lastInv.res = "error"

\* C10: every handler invocation that returned, with success or with an
\* error, appended exactly one Execution Record.
OneRecordPerInvocation ==
    lastInv.res \in {"success", "error"} => lastInv.recs = 1

\* C11: the ledger is append-only: every step of a run, of a handler or of a
\* progress query leaves the records already in the ledger in place, so the
\* ledger before the step is a prefix of the ledger after it.
LedgerAppendOnly ==
    [][/\ Len(ledger') >= Len(ledger)
       /\ SubSeq(ledger', 1, Len(ledger)) = ledger]_vars

\* C11 witness: two runs of one task have ended and the ledger holds a failed
\* record followed by later records of the same task
LedgerGrewAcrossRuns ==
    /\ \A p \in Procs : procs[p].pc = "done" /\ procs[p].task = 1
    /\ \E a, b \in 1..Len(ledger) :
          a < b /\ ledger[a].status = "failed" /\ ledger[b].agent_type = ledger[a].agent_type

\* C12: every run that has ended appended exactly one record with agent type
\* controller, whatever the outcomes of steps 1 to 4.
OneControllerRecordPerRun ==
    \A p \in Procs : procs[p].pc = "done" => procs[p].ctl = 1

\* C13: when a run ends, either the task's status is completed, partial or
\* failed, or the run ended through the top-level except of execute.
RunEndsTerminalOrFault ==
    [][\A p \in Procs :
          (procs[p].pc # "done" /\ procs'[p].pc = "done" /\ ~procs'[p].top)
          => /\ procs[p].task \in 1..Len(tasks')
             /\ tasks'[procs[p].task].status \in Terminal]_vars

\* C14: the step that enters the top-level except of execute appends exactly
\* one record, failed and of agent type controller, and ends the run with an
\* error outcome; a run that has ended takes no further step.
TopLevelFaultRecorded ==
    [][\A p \in Procs :
          /\ (~procs[p].top /\ procs'[p].top)
             => /\ ledger' = Append(ledger, [task_id |-> procs[p].task,
                                             subtask_id |-> procs[p].sid,
                                             agent_type |-> "controller",
                                             status |-> "failed",
                                             completed_at |-> TRUE])
                /\ procs'[p].pc = "done"
                /\ procs'[p].ret = "error"
          /\ procs[p].pc = "done" => procs'[p] = procs[p]]_vars

\* C15: a run whose context load returned an error still goes through
\* planning, the loop and the aggregation before it ends, and the task is not
\* failed by step 1.
ContextLoadFailureTolerated ==
    /\ [](\A p \in Procs :
             (procs[p].mem = "error" /\ procs[p].pc = "done")
                 => procs[p].plan # "none" /\ procs[p].ret = "success")
    /\ [][\A p \in Procs :
             (procs[p].mem # "error" /\ procs'[p].mem = "error") => tasks' = tasks]_vars

\* names a subtask's capability may carry, the empty name included
CapabilityNames == AgentTypes \cup {"", "act", "unknown"}

\* the handler the dispatcher contract gives a capability name
ExpectedHandler(name) ==
    CASE name = "planner" -> "planner"
      [] name = "memory" -> "memory"
      [] name = "research" -> "research"
      [] name = "executor" -> "executor"
      [] OTHER -> "executor"

\* C16: resolution is total: each of planner, memory, research and executor
\* resolves to its own handler and every other name to the executor; the
\* handler that ran for a subtask is the one its stored agent type resolves
\* to, and no step changes a stored agent type.
ResolutionIsTotal ==
    /\ [](/\ \A name \in CapabilityNames : Resolve(name) = ExpectedHandler(name)
          /\ \A n \in 1..Len(ledger) :
                (ledger[n].subtask_id # 0 /\ ledger[n].agent_type # "controller")
                => ledger[n].agent_type
                      = ExpectedHandler(subtasks[ledger[n].subtask_id].agent_type))
    /\ [][\A i \in 1..Len(subtasks) :
             subtasks'[i].agent_type = subtasks[i].agent_type]_vars

\* C16 witness: the executor handler ran for a subtask whose stored agent
\* type is still the unregistered name controller
UnknownRanAsExecutor ==
    \E n \in 1..Len(ledger) :
        /\ ledger[n].subtask_id # 0
        /\ ledger[n].agent_type = "executor"
        /\ ledger[n].status = "completed"
        /\ subtasks[ledger[n].subtask_id].agent_type = "controller"

\* the planner, research and executor handlers
Generative == {"planner", "research", "executor"}

DegradedPlanIsFixed ==
    [][(/\ ~apiKey
        /\ Len(ledger') = Len(ledger) + 1
        /\ ledger'[Len(ledger')].agent_type = "planner"
        /\ ledger'[Len(ledger')].status = "completed")
       => LET t == ledger'[Len(ledger')].task_id
              n == Len(subtasks)
              row(a, i) == [task_id |-> t, agent_type |-> a, order_index |-> i,
                            status |-> "pending"]
          IN /\ Len(subtasks') = n + 3
             /\ subtasks'[n + 1] = row("memory", 0)
             /\ subtasks'[n + 2] = row("research", 1)
             /\ subtasks'[n + 3] = row("executor", 2)
             /\ tasks'[t].status = "planning"]_vars

\* C18 witness: the degraded planner returned success for a new task, which
\* now has three subtasks and status planning
DegradedPlanCreated ==
    /\ ~apiKey
    /\ lastInv.agent = "planner"
    /\ lastInv.res = "success"
    /\ lastInv.added = 3
    /\ Len(subtasks) = 3
    /\ tasks[lastInv.task].status = "planning"

\* the currentStep of the projector contract for an ordered list
ExpectedStep(S, list) ==
    LET at(st) == {n \in 1..Len(list) : S[list[n]].status = st}
        first(ns) == list[CHOOSE n \in ns : \A m \in ns : n <= m]
    IN IF at("executing") # {} THEN [kind |-> "title", id |-> first(at("executing"))]
       ELSE IF at("pending") # {} THEN [kind |-> "Next", id |-> first(at("pending"))]
       ELSE IF at("completed") = 1..Len(list) THEN [kind |-> "Completed", id |-> 0]
       ELSE [kind |-> "Unknown", id |-> 0]

\* C19: the snapshot's current step is the first executing subtask if there
\* is one, even behind a pending one, else Next of the first pending subtask,
\* else Completed if all subtasks are completed, else Unknown.
CurrentStepPrefersExecuting ==
    \A t \in 1..Len(tasks) :
        get_task_progress(t).current_step
            = ExpectedStep(subtasks, OrderedSubtasks(subtasks, t))

\* C20: in every state the projected percentage of a task is 100 times its
\* completed subtasks over its subtasks, is 0 when it has none, and lies
\* between 0 and 100; the snapshot and the task status report the same.
PercentCompleteDefined ==
    \A t \in 1..Len(tasks) :
        LET ids == SubtaskIdsOf(subtasks, t)
            n == Cardinality(ids)
            c == Cardinality({i \in ids : subtasks[i].status = "completed"})
            snap == get_task_progress(t)
            pp == snap.progress_percentage
        IN /\ ~snap.error
           /\ pp.den > 0
           /\ n = 0 => pp.num = 0
           /\ n > 0 => pp.num * n = 100 * c * pp.den
           /\ 0 <= pp.num /\ pp.num <= 100 * pp.den
           /\ get_task_status(t).progress = pp

\* C20 witness: one of three subtasks is completed and another is executing
OneOfThreeCompleted ==
    \E t \in 1..Len(tasks) :
        LET ids == SubtaskIdsOf(subtasks, t)
        IN /\ Cardinality(ids) = 3
           /\ Cardinality({i \in ids : subtasks[i].status = "completed"}) = 1
           /\ \E i \in ids : subtasks[i].status = "executing"

\* C21: in every state the recent activity of a task's progress has at most
\* five entries, and they are exactly the five most recently started records
\* of that task (all of them when there are fewer), oldest first, each with
\* the record's agent type and status; no record of another task is listed
RecentActivityIsLastFive ==
    \A t \in 1..Len(tasks) :
        LET r == get_task_progress(t).recent_executions
            mine == {n \in 1..Len(ledger) : ledger[n].task_id = t}
            latest == {n \in mine : Cardinality({m \in mine : m > n}) < 5}
        IN /\ Len(r) <= 5
           /\ Len(r) = Cardinality(latest)
           /\ {r[j].started_at : j \in 1..Len(r)} = latest
           /\ \A j \in 1..Len(r) :
                  /\ ledger[r[j].started_at].task_id = t
                  /\ r[j].agent_type = ledger[r[j].started_at].agent_type
                  /\ r[j].status = ledger[r[j].started_at].status
                  /\ j > 1 => r[j - 1].started_at < r[j].started_at

\* C21 witness: a task has more than five records and the newest record of
\* the ledger belongs to another task id
SixRecordsThenForeign ==
    /\ Len(tasks) >= 1
    /\ Cardinality({n \in 1..Len(ledger) : ledger[n].task_id = 1}) > 5
    /\ ledger[Len(ledger)].task_id # 1
    /\ Len(get_task_progress(1).recent_executions) = 5

\* the ids a context load surfaced
Surfaced(load) == {load.list[j] : j \in 1..Len(load.list)}

\* ck occurs in key as a substring
Contains(key, ck) ==
    \E n \in 0..(Len(key) - Len(ck)) : SubSeq(key, n + 1, n + Len(ck)) = ck

\* row i of table M ranks above row j: importance first, then last access
Outranks(M, i, j) ==
    \/ M[i].importance > M[j].importance
    \/ /\ M[i].importance = M[j].importance
       /\ M[i].last_accessed > M[j].last_accessed

\* C22: after a context load, every record it surfaced has a lastAccessed
\* of the time of the load and is otherwise as before; every record that was
\* not surfaced (other key, other user, cut off by the limit) is exactly as
\* before; a record the load stored carries its creation time, not a refresh
RefreshOnlySurfaced ==
    lastLoad.n > 0 =>
        LET B == lastLoad.before
        IN /\ Len(memories) >= Len(B)
           /\ \A i \in 1..Len(B) :
                  IF i \in Surfaced(lastLoad) /\ lastLoad.res = "success"
                  THEN /\ memories[i] = [B[i] EXCEPT !.last_accessed =
                                                        memories[i].last_accessed]
                       /\ memories[i].last_accessed > lastLoad.at
                       /\ memories[i].last_accessed > B[i].last_accessed
                  ELSE memories[i] = B[i]
           /\ \A i \in (Len(B) + 1)..Len(memories) :
                  memories[i].last_accessed <= lastLoad.at

\* C22 witness: a load surfaced ten records and refreshed them, while a
\* matching record of the same user beyond the limit and a record of another
\* user kept their lastAccessed
TenRefreshedOthersKept ==
    /\ lastLoad.n > 0
    /\ lastLoad.res = "success"
    /\ Len(lastLoad.list) = 10
    /\ \A i \in Surfaced(lastLoad) :
           memories[i].last_accessed > lastLoad.before[i].last_accessed
    /\ \E i \in 1..Len(lastLoad.before) :
           /\ i \notin Surfaced(lastLoad)
           /\ lastLoad.before[i].user_id = lastLoad.user
           /\ Contains(lastLoad.before[i].key, lastLoad.context_key)
           /\ memories[i] = lastLoad.before[i]
    /\ \E i \in 1..Len(lastLoad.before) :
           /\ lastLoad.before[i].user_id # lastLoad.user
           /\ memories[i] = lastLoad.before[i]

\* C23: the relevant memories a successful context load returns are exactly
\* the owner's records whose key contains contextKey as a substring, highest
\* importance first and most recently accessed first among equals, cut after
\* the tenth
RelevantIsSubstringMatch ==
    (lastLoad.n > 0 /\ lastLoad.res = "success") =>
        LET B == lastLoad.before
            l == lastLoad.list
            matching == {i \in 1..Len(B) :
                            /\ B[i].user_id = lastLoad.user
                            /\ Contains(B[i].key, lastLoad.context_key)}
        IN /\ Surfaced(lastLoad) \subseteq matching
           /\ Len(l) = (IF Cardinality(matching) < 10 THEN Cardinality(matching) ELSE 10)
           /\ \A j \in 2..Len(l) : Outranks(B, l[j - 1], l[j])
           /\ \A i \in matching \ Surfaced(lastLoad) :
                  \A j \in 1..Len(l) : Outranks(B, l[j], i)

\* C24: a call that stores a context bundle either adds, for each key of the
\* bundle, exactly one record of that key (kind context, importance 5, the
\* user's, with the key's value) and nothing else, or leaves the whole memory
\* store as it was before the call
StoreContextAllOrNothing ==
    /\ lastLoad.stored =>
           LET B == lastLoad.before
               d == lastLoad.data
               new == (Len(B) + 1)..Len(memories)
           IN /\ Len(memories) = Len(B) + Len(d)
              /\ \A j \in 1..Len(d) :
                     /\ Cardinality({i \in new : memories[i].key = d[j].key}) = 1
                     /\ \A i \in new :
                            memories[i].key = d[j].key =>
                                /\ memories[i].memory_type = "context"
                                /\ memories[i].importance = 5
                                /\ memories[i].user_id = lastLoad.user
                                /\ memories[i].value = d[j].value
              /\ \A i \in new : \E j \in 1..Len(d) : memories[i].key = d[j].key
    /\ lastLoad.failedStore => (memories = lastLoad.before /\ lastLoad.res = "error")

\* C24 witness: a bundle of two keys failed to store and left the store as
\* it was, then the next call stored a bundle of two keys
FailedThenStoredTwoKeys ==
    /\ prevLoad.failedStore
    /\ Len(prevLoad.data) = 2
    /\ lastLoad.before = prevLoad.before
    /\ lastLoad.stored
    /\ Len(lastLoad.data) = 2
    /\ Len(memories) = Len(lastLoad.before) + 2

\* C25: when a call stored a bundle for a user and the next context load is
\* a successful one of that user with a contextKey that is a substring of a
\* stored key k, and fewer than ten records of the user whose key contains
\* contextKey rank above the stored record, the load returns a relevant
\* memory with key k and the stored value
StoredContextRoundTrip ==
    (/\ lastLoad.n > 0
     /\ prevLoad.stored
     /\ lastLoad.user = prevLoad.user
     /\ lastLoad.res = "success") =>
        LET B == lastLoad.before
            d == prevLoad.data
        IN \A j \in 1..Len(d) :
               LET r == Len(prevLoad.before) + j
                   higher == {i \in 1..Len(B) :
                                 /\ B[i].user_id = lastLoad.user
                                 /\ Contains(B[i].key, lastLoad.context_key)
                                 /\ Outranks(B, i, r)}
               IN (Contains(d[j].key, lastLoad.context_key) /\ Cardinality(higher) < 10)
                      => \E x \in 1..Len(lastLoad.returned) :
                             lastLoad.returned[x] = [key |-> d[j].key, value |-> d[j].value]

\* C26: a run is launched by task creation only in a step that adds the Task
\* with status pending and acknowledges "started" while the run has made no
\* step (nothing recorded, no subtask touched); afterwards the acknowledgment
\* never changes, whatever the run returns or raises
CreateAndRunDetached ==
    /\ [](\A p \in Procs : procs[p].ack \in {"none", "started"})
    /\ [][\A p \in Procs :
             /\ (procs[p].ack # "started" /\ procs'[p].ack = "started") =>
                    /\ tasks' = Append(tasks, [status |-> "pending", completed_at |-> FALSE])
                    /\ procs'[p].task = Len(tasks')
                    /\ procs'[p].pc = "start"
                    /\ procs'[p].ret = "none"
                    /\ ledger' = ledger
                    /\ subtasks' = subtasks
             /\ procs[p].ack = "started" => procs'[p].ack = "started"]_vars

\* C26 witness: a run launched by task creation has ended in the top-level
\* except with an error outcome or a raise, and the acknowledgment is still
\* "started"
DetachedRunFailedAfterAck ==
    \E p \in Procs :
        /\ procs[p].ack = "started"
        /\ procs[p].pc = "done"
        /\ procs[p].top
        /\ procs[p].ret \in {"error", "raised"}

\* C27: in every state, each subtask with status failed has at least one
\* record with status failed in the ledger that references it
FailedSubtaskHasFailedRecord ==
    \A i \in 1..Len(subtasks) :
        subtasks[i].status = "failed" =>
            \E n \in 1..Len(ledger) :
                /\ ledger[n].status = "failed"
                /\ ledger[n].subtask_id = i

\* a run of task t is in progress
InProgress(t) ==
    \E q \in Procs : procs[q].task = t /\ procs[q].pc \notin {"idle", "done"}

\* C28: whenever a run of a task is in progress and the event loop is free,
\* a second invocation of the orchestrator on that task can start at once:
\* nothing rejects or delays it
NoSingleFlightGuard ==
    \A t \in 1..Len(tasks), p \in Procs :
        (overlap /\ cur = 0 /\ FreeProc(p) /\ InProgress(t))
            => ENABLED InvokeRun(p, t, 0)

\* C28 witness: two runs of the same task are both inside the execution
\* loop, after both planned the task while it had no subtasks (the second
\* entered planning while the first awaited the provider)
TwoRunsBothExecuting ==
    \E p, q \in Procs :
        /\ p # q
        /\ procs[p].task = procs[q].task
        /\ procs[p].plan = "success" /\ procs[p].nAtPlan = 0
        /\ procs[q].plan = "success" /\ procs[q].nAtPlan = 0
        /\ procs[p].pc \in {"dispatch", "h_wait", "sleep"}
        /\ procs[q].pc \in {"dispatch", "h_wait", "sleep"}
        /\ \E i \in 1..Len(subtasks) :
               subtasks[i].task_id = procs[p].task /\ subtasks[i].status = "executing"

\* only one run has ever been started and no handler was called directly
SingleRun == procs[2].pc = "idle" /\ apiCalls = 0

\* C29: a subtask with status pending gets status executing before any
\* other status, and, while a single run works on the task, a subtask with
\* status completed or failed keeps that status
SubtaskPassesThroughExecuting ==
    [][\A i \in 1..Len(subtasks) :
          /\ subtasks[i].status = "pending" =>
                 subtasks'[i].status \in {"pending", "executing"}
          /\ (SingleRun /\ SingleRun' /\ subtasks[i].status \in {"completed", "failed"}) =>
                 subtasks'[i].status = subtasks[i].status]_vars

\* C30: while a single run works on a task, at most one subtask of the task
\* has status executing, and every subtask of the task with a lower order
\* index than an executing one is completed or failed
SequentialWithinRun ==
    SingleRun =>
        \A t \in 1..Len(tasks) :
            LET S == SubtaskIdsOf(subtasks, t)
                ex == {i \in S : subtasks[i].status = "executing"}
            IN /\ Cardinality(ex) <= 1
               /\ \A i \in ex, j \in S :
                      subtasks[j].order_index < subtasks[i].order_index =>
                          subtasks[j].status \in {"completed", "failed"}

\* C31: in every state a task's completion time is set if and only if its
\* status is completed; in particular it is not set while the status is
\* partial or failed
CompletedAtIffCompleted ==
    \A t \in 1..Len(tasks) :
        tasks[t].completed_at <=> (tasks[t].status = "completed")

\* C32: a progress projection, a status query or a user-task listing can be
\* served whenever the event loop is free, whatever the runs in progress are
\* doing, and the step that serves it changes no Task, Subtask, Execution
\* Record or Memory Record and no run: the runs go on from the same state
ReadsArePure ==
    /\ [](cur = 0 =>
             /\ \A t \in TaskIds \cup {MissingTask} :
                    ENABLED GetTaskProgress(t) /\ ENABLED GetTaskStatus(t)
             /\ ENABLED GetUserTasks)
    /\ [][((\E t \in TaskIds \cup {MissingTask} : GetTaskProgress(t) \/ GetTaskStatus(t))
              \/ GetUserTasks)
             => UNCHANGED <<tasks, subtasks, ledger, memories, procs>>]_vars

\* C32 witness: the reads can be served while a run is suspended inside the
\* execution loop with a subtask executing and another completed
ReadDuringRun ==
    /\ cur = 0
    /\ \E p \in Procs : procs[p].pc \in {"h_wait", "sleep"}
    /\ get_task_progress(1).completed_subtasks >= 1
    /\ \E i \in 1..Len(subtasks) : subtasks[i].status = "executing"
    /\ Len(get_user_tasks) = 1
    /\ Len(get_task_progress(1).recent_executions) >= 3

\* C33: a run on a task id without a Task row ends with an error outcome,
\* having called no handler and created no Task and no Subtask; the progress
\* query on such an id answers with an error and the status query with
\* not_found
NotFoundHandled ==
    /\ [](/\ get_task_progress(MissingTask).error
          /\ get_task_status(MissingTask).status = "not_found"
          /\ SubtaskIdsOf(subtasks, MissingTask) = {}
          /\ \A p \in Procs :
                 (procs[p].task = MissingTask /\ procs[p].pc = "done") =>
                     /\ procs[p].ret = "error"
                     /\ procs[p].mem = "none"
                     /\ procs[p].plan = "none"
                     /\ procs[p].dispatched = <<>>)
    /\ [][\A p \in Procs :
             (procs[p].task = MissingTask /\ procs[p].pc # "done" /\ procs'[p].pc = "done")
                 => (tasks' = tasks /\ subtasks' = subtasks)]_vars

\* C34: when a broadcast that nothing else disturbed returns, the
\* message was delivered to exactly the subscribers of the collection whose
\* send succeeds, and the collection holds exactly those subscribers, in
\* their order: no dead one remains, no live one was removed or skipped
BroadcastDeliversAndPrunes ==
    (bcast.pc = "done" /\ bcast.quiet) =>
        /\ bcast.delivered = Range(bcast.start) \ closed
        /\ active_connections = SelectSeq(bcast.start, LAMBDA w : w \notin closed)

\* C35: when the only run of a task sets the task's status at aggregation,
\* every subtask the task has at that moment is completed or failed,
\* subtasks added while the loop was running included
AggregationLeavesNoOpenSubtask ==
    [][\A p \in Procs :
          (SingleRun /\ procs[p].pc = "aggregate" /\ procs'[p].pc = "finish") =>
              \A i \in SubtaskIdsOf(subtasks', procs[p].task) :
                  subtasks'[i].status \in {"completed", "failed"}]_vars

\* C36: when a run leaves the execution loop, its counts add up to the
\* number of subtasks it fetched, its completed count is the number of the
\* task's subtasks stored as completed and its failed count the number
\* stored as failed
CountsAgreeWithStore ==
    \A p \in Procs :
        procs[p].pc = "aggregate" =>
            LET S == SubtaskIdsOf(subtasks, procs[p].task)
            IN /\ procs[p].completed + procs[p].failed = Len(procs[p].list)
               /\ procs[p].completed =
                      Cardinality({i \in S : subtasks[i].status = "completed"})
               /\ procs[p].failed =
                      Cardinality({i \in S : subtasks[i].status = "failed"})

\* the agent types of the records of task t, in ledger order
AgentsOf(t) ==
    LET ex == executions_of(ledger, t)
    IN [j \in 1..Len(ex) |-> ex[j].agent_type]

\* run p was launched by the creation of its task, has ended, and nothing
\* else worked on the task and no store call has failed
CleanFirstRunDone(p) ==
    /\ procs[p].ack = "started"
    /\ procs[p].pc = "done"
    /\ faults = 0
    /\ apiCalls = 0
    /\ \A q \in Procs \ {p} : procs[q].task # procs[p].task

\* a run waits at the planning step for room in the subtask table of the
\* model, which holds MaxSubtasks rows and never shrinks; the run keeps the
\* event loop, so no other run takes a step either
PlanOutOfRoom ==
    \E q \in Procs :
        /\ procs[q].pc = "plan"
        /\ Len(subtasks) + Len(FallbackPlan) > MaxSubtasks

\* C37: without credentials, the run launched by the creation of a task
\* ends, unless the subtask table of the model has no room for a plan;
\* when it has ended with no store fault and nothing else has worked
\* on the task, the task has exactly three subtasks, all completed, its
\* status is completed with the completion time set, and its records are six,
\* of agent types memory, planner, memory, research, executor, controller in
\* this order, all completed
DegradedRunCompletes ==
    /\ \A p \in Procs : (procs[p].ack = "started") ~>
                             (procs[p].pc = "done" \/ PlanOutOfRoom)
    /\ [](\A p \in Procs :
             CleanFirstRunDone(p) =>
                 LET t == procs[p].task
                     S == SubtaskIdsOf(subtasks, t)
                     ex == executions_of(ledger, t)
                 IN /\ procs[p].ret = "success"
                    /\ Cardinality(S) = 3
                    /\ \A i \in S : subtasks[i].status = "completed"
                    /\ tasks[t] = [status |-> "completed", completed_at |-> TRUE]
                    /\ AgentsOf(t) = <<"memory", "planner", "memory", "research",
                                       "executor", "controller">>
                    /\ \A j \in 1..Len(ex) : ex[j].status = "completed")

\* C37 witness: such a run has ended and left six records
DegradedRunDone ==
    \E p \in Procs :
        /\ CleanFirstRunDone(p)
        /\ ~apiKey
        /\ Len(executions_of(ledger, procs[p].task)) = 6
        /\ procs[p].completed = 3

\* run p has gone through planning and has not ended
PastPlanning(p) ==
    procs[p].pc \in {"fetch", "dispatch", "h_wait", "sleep", "aggregate", "finish"}

\* C38: while a single run works on a task and has gone through planning,
\* no step changes the total of the task's progress snapshot or lowers its
\* completed count or its percentage
ProgressNeverGoesBack ==
    [][\A p \in Procs :
          (SingleRun /\ SingleRun' /\ PastPlanning(p) /\ procs[p].task \in 1..Len(tasks)) =>
              LET a == get_task_progress(procs[p].task)
                  b == get_task_progress(procs[p].task)'
              IN /\ b.total_subtasks = a.total_subtasks
                 /\ b.completed_subtasks >= a.completed_subtasks
                 /\ b.progress_percentage.num * a.progress_percentage.den >=
                        a.progress_percentage.num * b.progress_percentage.den]_vars

\* the records of table M that user_id owns, in table order
OwnRows(M, user_id) == SelectSeq(M, LAMBDA r : r.user_id = user_id)

\* table M with every record of another user rewritten: its key made to
\* contain context_key, its importance above every stored one, its last
\* access the most recent
Boosted(M, user_id, context_key) ==
    [i \in 1..Len(M) |->
        IF M[i].user_id = user_id THEN M[i]
        ELSE [M[i] EXCEPT !.key = context_key, !.importance = 10,
                          !.last_accessed = clock + 1]]

\* the records a query over table M returns, in order
RowsOf(M, list) == [j \in 1..Len(list) |-> M[list[j]]]

\* C39: a context load for a user surfaces only records that user owns and
\* leaves every record of another user exactly as it was; on a table that
\* differs only in the records of other users (removed, or given matching
\* keys and the highest importance) the query returns the same records
MemoryScopedToOwner ==
    lastLoad.n > 0 =>
        LET B == lastLoad.before
            u == lastLoad.user
            ck == lastLoad.context_key
        IN /\ \A i \in Surfaced(lastLoad) : B[i].user_id = u
           /\ \A i \in 1..Len(B) : B[i].user_id # u => memories[i] = B[i]
           /\ lastLoad.list = get_relevant_memories(B, u, ck)
           /\ get_relevant_memories(Boosted(B, u, ck), u, ck) = lastLoad.list
           /\ RowsOf(OwnRows(B, u), get_relevant_memories(OwnRows(B, u), u, ck)) =
                  RowsOf(B, lastLoad.list)

\* a successful load surfaced records of its user while a record of another
\* user matched the same context key and ranked above one of them
LoadBesideForeignRecord ==
    /\ lastLoad.n > 0 /\ lastLoad.res = "success"
    /\ \E i \in Surfaced(lastLoad), j \in 1..Len(lastLoad.before) :
          /\ lastLoad.before[j].user_id # lastLoad.user
          /\ like(lastLoad.before[j].key,
                  <<"%">> \o lastLoad.context_key \o <<"%">>)
          /\ Outranks(lastLoad.before, j, i)
          /\ memories[i].last_accessed > lastLoad.before[i].last_accessed

\* C40: every execution record in the ledger has the status completed or
\* failed and a completion time, and a record keeps both once appended; no
\* progress snapshot shows a record with status running
LedgerRecordsAreTerminal ==
    /\ [](/\ \A n \in 1..Len(ledger) :
               /\ ledger[n].status \in {"completed", "failed"}
               /\ ledger[n].completed_at
          /\ \A t \in 1..Len(tasks) :
               \A j \in 1..Len(get_task_progress(t).recent_executions) :
                   get_task_progress(t).recent_executions[j].status # "running")
    /\ [][\A n \in 1..Len(ledger) :
             n <= Len(ledger') /\ ledger'[n] = ledger[n]]_vars

\* the ledger holds a completed and a failed record of the same task
LedgerHasBothOutcomes ==
    \E a, b \in 1..Len(ledger) :
        /\ ledger[a].task_id = ledger[b].task_id
        /\ ledger[a].status = "completed" /\ ledger[a].completed_at
        /\ ledger[b].status = "failed" /\ ledger[b].completed_at

====
